---- MODULE Spec2Model ----
(***************************************************************************)
(* Deferred command recording of the draw manager (draw_pass.hh: Pass,     *)
(* PassBase, PassSortable, SubPassVector) and the mesh identifier map      *)
(* (bmesh_idmap.h: BMIdMap).                                               *)
(*                                                                         *)
(* A pass is referred to by a handle: 0 is the root Pass object, k >= 1 is *)
(* the reference sub() returned for index k-1 of the root's sub-pass       *)
(* container.                                                              *)
(* Indices stored in headers are the 0-based indices of the C++ code.      *)
(***************************************************************************)
EXTENDS Integers, Sequences, FiniteSets, TLC

VARIABLES
  pass,                     \* the root Pass: headers_, commands_, shader_
  sub_passes_main_,         \* Pass::sub_passes_main_, shared by the tree
  draw_commands_buf_main_,  \* Pass::draw_commands_buf_main_ (number of draws)
  sorting_values_,          \* PassSortable::sorting_values_
  sorted_,                  \* PassSortable::sorted_
  executed,                 \* device calls of the last operation (a submit)
  serialized,               \* text returned by the last operation (a serialize)
  debug_build,              \* TRUE when BLI_assert is compiled in
  aborted,                  \* a BLI_assert has failed
  map,                      \* BMIdMap::map, map[i+1] is the entry of id i
  maxid,                    \* BMIdMap::maxid
  freelist,                 \* BMIdMap::freelist
  free_idx_map,             \* BMIdMap::free_idx_map
  live,                     \* addresses holding an element of the mesh
  elem_id,                  \* the id attribute stored in each element
  registered,               \* history: elements bound by alloc/assign
  lookup_result,            \* value returned by the last operation (a lookup)
  other,                    \* a second Pass object with its own members
  submitting,               \* the submit of the root pass that is under way
  lastOp                    \* history: the last operation and its arguments

passVars == <<pass, sub_passes_main_, draw_commands_buf_main_, sorting_values_,
              sorted_, executed, serialized, debug_build, aborted>>
idmapVars == <<map, maxid, freelist, free_idx_map, live, elem_id, registered,
               lookup_result>>
otherVars == <<other, submitting>>
vars == <<passVars, idmapVars, otherVars, lastOp>>

(* ------------------------------ bounds -------------------------------- *)
MaxHeaders == 3       \* headers recorded in one tree
MaxSubPasses == 3     \* sub-passes in one tree
MaxCount == 1         \* largest instance / vertex / group count tried
MaxKey == 1           \* largest sorting value tried
MaxElems == 2         \* addresses of the element pool
MaxId == 1            \* largest id tried by assign and issued by alloc
block_size == 2       \* SubPassVector<T, block_size>, scaled down from 16
MaxOther == 2         \* headers recorded in the second tree

(* ------------------------------ values -------------------------------- *)
NullShader == "nullptr"
Shaders == {"shA"}
NullElem == 0
BM_ID_NONE == 0
Addrs == 1..MaxElems
Names == {"sub"}
\* The shaders and the interface name the name-based calls are tried with.
AllShaders == {"shA", "shB"}
UniformNames == {"Block"}
\* Line prefixes serialize is called with (lengths).
Prefixes == {0, 1}
\* The key recorded for a sub-pass made by PassBase::sub: no sorting value.
NoKey == MaxKey + 1

Op(op, p, a, b) == [op |-> op, p |-> p, a |-> a, b |-> b]

Bool(b) == IF b THEN 1 ELSE 0

(* ------------------------- PassBase, Pass ----------------------------- *)
Header(type, index) == [type |-> type, index |-> index]

\* PassBase(name, draw_command_buf, sub_passes, shader); path and key are
\* history fields: where sub() was called, and the key given to it.
PassBase(name, shader, path, key) ==
  [headers_ |-> <<>>, commands_ |-> <<>>, shader_ |-> shader,
   debug_name |-> name, path |-> path, key |-> key]

Last(s) == s[Len(s)]

\* A block of SubPassVector::blocks_, std::make_unique<Vector<T, block_size>>:
\* its items, and gen, the number of times the items were moved out of the
\* buffer they were in (history only).
NewBlock == [items |-> <<>>, gen |-> 0]

\* Vector<T, block_size>::append: the items stay where they are as long as
\* they fit the inline buffer of block_size elements, and move when the
\* vector grows past it.
VectorAppend(block, elem) ==
  [items |-> Append(block.items, elem),
   gen |-> IF Len(block.items) >= block_size THEN block.gen + 1
                                             ELSE block.gen]

\* An append that opens a new block one element late.
append_and_get_index_late(blocks, elem) ==
  LET opened == IF blocks = <<>> \/ Len(Last(blocks).items) = block_size + 1
                  THEN Append(blocks, NewBlock) ELSE blocks
      last == Last(opened)
  IN [blocks |-> [opened EXCEPT ![Len(opened)] = VectorAppend(last, elem)],
      index |-> Len(last.items) + (Len(opened) - 1) * block_size]

\* SubPassVector::append_and_get_index: the blocks after the call and the
\* index returned.
append_and_get_index(blocks, elem) ==
  LET opened == IF blocks = <<>> \/ Len(Last(blocks).items) = block_size
                  THEN Append(blocks, NewBlock) ELSE blocks
      last == Last(opened)
  IN [blocks |-> [opened EXCEPT ![Len(opened)] = VectorAppend(last, elem)],
      index |-> Len(last.items) + (Len(opened) - 1) * block_size]

\* SubPassVector::operator[] on the blocks given.
At(blocks, index) ==
  blocks[(index \div block_size) + 1].items[(index % block_size) + 1]

\* SubPassVector::operator[]
SubPassAt(index) == At(sub_passes_main_, index)

\* Sub-passes appended since the last clear().
SubPassCount ==
  IF sub_passes_main_ = <<>> THEN 0
  ELSE (Len(sub_passes_main_) - 1) * block_size
         + Len(Last(sub_passes_main_).items)

Handles == 0..SubPassCount
SubHandles == 1..SubPassCount

PassAt(h) == IF h = 0 THEN pass ELSE SubPassAt(h - 1)

\* A write through the reference operator[] returns.
SetAt(blocks, index, P) ==
  [blocks EXCEPT ![(index \div block_size) + 1].items[(index % block_size) + 1]
                   = P]

SetPass(h, P) ==
  IF h = 0
    THEN /\ pass' = P
         /\ UNCHANGED sub_passes_main_
    ELSE /\ sub_passes_main_' = SetAt(sub_passes_main_, h - 1, P)
         /\ UNCHANGED pass

RECURSIVE SumLen(_)
SumLen(h) ==
  IF h > SubPassCount THEN 0
  ELSE Len(PassAt(h).headers_) + SumLen(h + 1)

\* Headers recorded in the tree since the last init().
TotalHeaders == Len(pass.headers_) + SumLen(1)

\* The position of the next header of P in the recording: the path of P
\* followed by the ordinal of the header (history only).
NextPos(P) == Append(P.path, Len(P.headers_) + 1)

\* The rank of the next recording call since the last init() (history only).
NextSeq == TotalHeaders + 1

\* A create_command that stores the size of commands_ after the append.
create_command_index_after(P, type, payload) ==
  [P EXCEPT !.commands_ = Append(@, payload),
            !.headers_ = Append(@, Header(type, Len(P.commands_) + 1))]

\* PassBase::create_command followed by the assignment of the payload.
create_command(P, type, payload) ==
  [P EXCEPT !.commands_ = Append(@, payload),
            !.headers_ = Append(@, Header(type, Len(P.commands_)))]

CanRecord(h) == /\ ~aborted
                /\ h \in Handles
                /\ TotalHeaders < MaxHeaders

\* Recording returns nothing to the caller.
NoOutput == /\ executed' = <<>>
            /\ serialized' = <<>>

PassUnchangedBut(h, P) ==
  /\ SetPass(h, P)
  /\ NoOutput
  /\ UNCHANGED <<sorting_values_, sorted_, debug_build, aborted, idmapVars, otherVars>>

(* ----------------------------- recording ------------------------------ *)
\* An init that also resets the shader of the root.
init_resets_shader ==
  /\ ~aborted
  /\ pass' = [pass EXCEPT !.headers_ = <<>>, !.commands_ = <<>>,
                          !.shader_ = NullShader]
  /\ sub_passes_main_' = <<>>
  /\ draw_commands_buf_main_' = 0
  /\ lastOp' = Op("init", 0, TotalHeaders, Bool(sorted_))
  /\ NoOutput
  /\ UNCHANGED <<debug_build, aborted, idmapVars, otherVars>>

\* An init that leaves the sub-pass container alone.
init_keeps_sub_passes ==
  /\ ~aborted
  /\ pass' = [pass EXCEPT !.headers_ = <<>>, !.commands_ = <<>>]
  /\ UNCHANGED sub_passes_main_
  /\ draw_commands_buf_main_' = 0
  /\ lastOp' = Op("init", 0, TotalHeaders, Bool(sorted_))
  /\ NoOutput
  /\ UNCHANGED <<debug_build, aborted, idmapVars, otherVars>>

\* Pass::init; the history keeps the number of headers of the tree and the
\* sorted flag it found.
init ==
  /\ ~aborted
  /\ pass' = [pass EXCEPT !.headers_ = <<>>, !.commands_ = <<>>]
  /\ sub_passes_main_' = <<>>
  /\ draw_commands_buf_main_' = 0
  /\ lastOp' = Op("init", 0, TotalHeaders, Bool(sorted_))
  /\ NoOutput
  /\ UNCHANGED <<debug_build, aborted, idmapVars, otherVars>>

PassInit ==
  /\ init
  /\ UNCHANGED <<sorting_values_, sorted_>>

\* A sub that leaves the shader argument of the constructor to its default.
SubOf_default_shader(h, name, key, op) ==
  LET P == PassAt(h)
      child == PassBase(name, NullShader, NextPos(P), key)
      appended == append_and_get_index(sub_passes_main_, child)
      index == appended.index
      P2 == [P EXCEPT !.headers_ = Append(@, Header("SubPass", index))]
  IN /\ CanRecord(h)
     /\ SubPassCount < MaxSubPasses
     /\ IF h = 0
          THEN /\ pass' = P2
               /\ sub_passes_main_' = appended.blocks
          ELSE /\ sub_passes_main_' = SetAt(appended.blocks, h - 1, P2)
               /\ UNCHANGED pass
     /\ lastOp' = Op(op, h, index, key)
     /\ NoOutput
     /\ UNCHANGED <<draw_commands_buf_main_, debug_build, aborted, idmapVars, otherVars>>

\* PassBase::sub: the new sub-pass starts with the shader of its parent.
SubOf(h, name, key, op) ==
  LET P == PassAt(h)
      child == PassBase(name, P.shader_, NextPos(P), key)
      appended == append_and_get_index(sub_passes_main_, child)
      index == appended.index
      P2 == [P EXCEPT !.headers_ = Append(@, Header("SubPass", index))]
  IN /\ CanRecord(h)
     /\ SubPassCount < MaxSubPasses
     /\ IF h = 0
          THEN /\ pass' = P2
               /\ sub_passes_main_' = appended.blocks
          ELSE /\ sub_passes_main_' = SetAt(appended.blocks, h - 1, P2)
               /\ UNCHANGED pass
     /\ lastOp' = Op(op, h, index, key)
     /\ NoOutput
     /\ UNCHANGED <<draw_commands_buf_main_, debug_build, aborted, idmapVars, otherVars>>

Sub(h, name) ==
  /\ SubOf(h, name, NoKey, "sub")
  /\ UNCHANGED <<sorting_values_, sorted_>>

\* PassBase::shader_set
ShaderSet(h, shader) ==
  LET P == PassAt(h)
      cmd == [shader |-> shader, pos |-> NextPos(P), seq |-> NextSeq]
  IN /\ CanRecord(h)
     /\ PassUnchangedBut(h, [create_command(P, "ShaderBind", cmd)
                               EXCEPT !.shader_ = shader])
     /\ lastOp' = Op("shader_set", h, 0, 0)
     /\ UNCHANGED draw_commands_buf_main_

\* A failed BLI_assert(shader_): the process aborts, nothing is recorded.
AssertFails(h, op, a, b) ==
  /\ aborted' = TRUE
  /\ lastOp' = Op(op, h, a, b)
  /\ NoOutput
  /\ UNCHANGED <<pass, sub_passes_main_, draw_commands_buf_main_,
                 sorting_values_, sorted_, debug_build, idmapVars, otherVars>>

\* DrawCommandBufType::append_draw(headers_, commands_, batch, ...)
append_draw(P, instance_len, vertex_len) ==
  create_command(P, "Draw", [instance_len |-> instance_len,
                             vertex_len |-> vertex_len, pos |-> NextPos(P),
                             seq |-> NextSeq])

\* A draw that records whatever the counts are.
Draw_keeps_zero(h, instance_len, vertex_len) ==
  LET P == PassAt(h)
  IN /\ CanRecord(h)
     /\ PassUnchangedBut(h, append_draw(P, instance_len, vertex_len))
     /\ draw_commands_buf_main_' = draw_commands_buf_main_ + 1
     /\ lastOp' = Op("draw", h, instance_len, vertex_len)

\* PassBase::draw
Draw(h, instance_len, vertex_len) ==
  LET P == PassAt(h)
  IN /\ ~aborted
     /\ h \in Handles
     /\ IF instance_len = 0 \/ vertex_len = 0
          THEN /\ lastOp' = Op("draw", h, instance_len, vertex_len)
               /\ NoOutput
               /\ UNCHANGED <<pass, sub_passes_main_, draw_commands_buf_main_,
                              sorting_values_, sorted_, debug_build, aborted,
                              idmapVars, otherVars>>
          ELSE IF debug_build /\ P.shader_ = NullShader
            THEN AssertFails(h, "draw", instance_len, vertex_len)
            ELSE /\ CanRecord(h)
                 /\ PassUnchangedBut(h, append_draw(P, instance_len, vertex_len))
                 /\ draw_commands_buf_main_' = draw_commands_buf_main_ + 1
                 /\ lastOp' = Op("draw", h, instance_len, vertex_len)

\* A dispatch that returns early on an empty group count, as draw does.
Dispatch_drops_zero(h, group_len) ==
  LET P == PassAt(h)
      cmd == [group_len |-> group_len, pos |-> NextPos(P), seq |-> NextSeq]
  IN /\ ~aborted
     /\ h \in Handles
     /\ IF group_len = 0
          THEN /\ lastOp' = Op("dispatch", h, group_len, 0)
               /\ NoOutput
               /\ UNCHANGED <<pass, sub_passes_main_, draw_commands_buf_main_,
                              sorting_values_, sorted_, debug_build, aborted,
                              idmapVars, otherVars>>
          ELSE /\ CanRecord(h)
               /\ PassUnchangedBut(h, create_command(P, "Dispatch", cmd))
               /\ lastOp' = Op("dispatch", h, group_len, 0)
               /\ UNCHANGED draw_commands_buf_main_

\* PassBase::dispatch(int3 group_len)
Dispatch(h, group_len) ==
  LET P == PassAt(h)
      cmd == [group_len |-> group_len, pos |-> NextPos(P), seq |-> NextSeq]
  IN /\ CanRecord(h)
     /\ IF debug_build /\ P.shader_ = NullShader
          THEN AssertFails(h, "dispatch", group_len, 0)
          ELSE /\ PassUnchangedBut(h, create_command(P, "Dispatch", cmd))
               /\ lastOp' = Op("dispatch", h, group_len, 0)
               /\ UNCHANGED draw_commands_buf_main_

(* --------------------- name-based binds, constants -------------------- *)
\* GPU_shader_get_uniform_block_binding / GPU_shader_get_uniform, the shader
\* reflection service: the slot of a name in the interface of a shader, -1
\* when the interface has no such name.
GPU_shader_get_binding(shader, name) ==
  CASE shader = "shA" /\ name = "Block" -> 0
    [] shader = "shB" /\ name = "Block" -> 1
    [] OTHER -> -1

\* The values a reflection call on a null shader can return when it returns.
GarbageSlots == {-1, 0}

Resolved(crash, slot) == [crash |-> crash, slot |-> slot]

\* The outcomes of resolving name against the shader of P: a slot, or a
\* crash. A null shader is dereferenced by the reflection call: the process
\* dies, or in a build without assertions goes on with any slot.
ResolveOutcomes(P, name) ==
  IF P.shader_ # NullShader
    THEN {Resolved(FALSE, GPU_shader_get_binding(P.shader_, name))}
    ELSE {Resolved(TRUE, -1)}
           \cup (IF debug_build THEN {}
                                ELSE {Resolved(FALSE, g) : g \in GarbageSlots})

\* PassBase::bind_ubo(const char *name, ...) and the other binds by name:
\* the slot is looked up in shader_, then bind_ubo(int slot, ...) records.
\* shader_at is a history field.
BindName(h, name) ==
  LET P == PassAt(h)
  IN /\ CanRecord(h)
     /\ \E r \in ResolveOutcomes(P, name) :
          IF r.crash
            THEN AssertFails(h, "bind", 0, 1)
            ELSE /\ PassUnchangedBut(h, create_command(P, "ResourceBind",
                        [slot |-> r.slot, name |-> name,
                         shader_at |-> P.shader_, pos |-> NextPos(P),
                         seq |-> NextSeq]))
                 /\ lastOp' = Op("bind", h, r.slot,
                                 Bool(P.shader_ = NullShader))
     /\ UNCHANGED draw_commands_buf_main_

\* PassBase::push_constant(const char *name, const float4x4 &data): three
\* commands hold the 64 bytes of the matrix.
PushConstant(h, name) ==
  LET P == PassAt(h)
  IN /\ CanRecord(h)
     /\ \E r \in ResolveOutcomes(P, name) :
          IF r.crash
            THEN AssertFails(h, "push_constant", 0, 1)
            ELSE LET cmd == [location |-> r.slot, array_len |-> 1,
                             comp_len |-> 16, name |-> name,
                             shader_at |-> P.shader_, pos |-> NextPos(P),
                             seq |-> NextSeq]
                     P1 == create_command(P, "PushConstant", cmd)
                     P2 == create_command(P1, "None", [float4x4_part |-> 1])
                     P3 == create_command(P2, "None", [float4x4_part |-> 2])
                 IN /\ PassUnchangedBut(h, P3)
                    /\ lastOp' = Op("push_constant", h, r.slot,
                                    Bool(P.shader_ = NullShader))
     /\ UNCHANGED draw_commands_buf_main_

(* ------------------------ submit and serialize ------------------------ *)
\* An execute that looks the name of a bind up in the shader the root has
\* at submission.
Execute_resolving(type, cmd) ==
  [type |-> type,
   cmd |-> IF type = "ResourceBind"
             THEN [cmd EXCEPT !.slot = GPU_shader_get_binding(pass.shader_,
                                                               cmd.name)]
             ELSE cmd]

\* <command>.execute(state): the device call made for one command.
Execute(type, cmd) == [type |-> type, cmd |-> cmd]

\* A submit that executes the placeholders as well.
RECURSIVE submit_from_runs_placeholders(_, _)
submit_from_runs_placeholders(P, k) ==
  IF k > Len(P.headers_) THEN <<>>
  ELSE LET header == P.headers_[k]
           here == CASE header.type = "SubPass" ->
                          submit_from_runs_placeholders(
                            SubPassAt(header.index), 1)
                     [] OTHER ->
                          <<Execute(header.type, P.commands_[header.index + 1])>>
       IN here \o submit_from_runs_placeholders(P, k + 1)

\* PassBase::submit, from header k of pass P on.
RECURSIVE submit_from(_, _)
submit_from(P, k) ==
  IF k > Len(P.headers_) THEN <<>>
  ELSE LET header == P.headers_[k]
           here == CASE header.type = "None" -> <<>>
                     [] header.type = "SubPass" ->
                          submit_from(SubPassAt(header.index), 1)
                     [] OTHER ->
                          <<Execute(header.type, P.commands_[header.index + 1])>>
       IN here \o submit_from(P, k + 1)

\* A submit that runs every sub-pass after the commands of its parent.
RECURSIVE submit_deferred_from(_, _, _)
submit_deferred_from(P, k, subs) ==
  IF k > Len(P.headers_)
    THEN IF subs = <<>> THEN <<>>
         ELSE submit_deferred_from(SubPassAt(Head(subs)), 1, <<>>)
                \o submit_deferred_from(P, k, Tail(subs))
  ELSE LET header == P.headers_[k]
       IN CASE header.type = "None" -> submit_deferred_from(P, k + 1, subs)
            [] header.type = "SubPass" ->
                 submit_deferred_from(P, k + 1, Append(subs, header.index))
            [] OTHER ->
                 <<Execute(header.type, P.commands_[header.index + 1])>>
                   \o submit_deferred_from(P, k + 1, subs)

submit_deferred(P) == submit_deferred_from(P, 1, <<>>)

submit(P) == submit_from(P, 1)

\* One line of serialize(): the length of its line prefix, its text, and
\* the position in the recording of what it prints (history only).
Line(prefix, text, pos) == [prefix |-> prefix, text |-> text, pos |-> pos]

\* A serialize that hands its own line prefix on to the sub-passes.
RECURSIVE serialize_from_flat(_, _, _)
serialize_from_flat(P, prefix, k) ==
  IF k > Len(P.headers_) THEN <<>>
  ELSE LET header == P.headers_[k]
           S == SubPassAt(header.index)
           here == CASE header.type = "None" -> <<>>
                     [] header.type = "SubPass" ->
                          <<Line(prefix - 2, S.debug_name, S.path)>>
                            \o serialize_from_flat(S, prefix, 1)
                     [] OTHER ->
                          <<Line(prefix, header.type,
                                 P.commands_[header.index + 1].pos)>>
       IN here \o serialize_from_flat(P, prefix, k + 1)

\* PassBase::serialize, from header k of pass P on; prefix is the length of
\* line_prefix after `line_prefix += "  "`.
RECURSIVE serialize_from(_, _, _)
serialize_from(P, prefix, k) ==
  IF k > Len(P.headers_) THEN <<>>
  ELSE LET header == P.headers_[k]
           S == SubPassAt(header.index)
           here == CASE header.type = "None" -> <<>>
                     [] header.type = "SubPass" ->
                          <<Line(prefix, S.debug_name, S.path)>>
                            \o serialize_from(S, prefix + 2, 1)
                     [] OTHER ->
                          <<Line(prefix, header.type,
                                 P.commands_[header.index + 1].pos)>>
       IN here \o serialize_from(P, prefix, k + 1)

serialize(P, line_prefix) ==
  <<Line(line_prefix, P.debug_name, P.path)>>
    \o serialize_from(P, line_prefix + 2, 1)

\* A submit that drops the headers it has visited.
Submit_consuming ==
  /\ ~aborted
  /\ executed' = submit(pass)
  /\ serialized' = <<>>
  /\ lastOp' = Op("submit", 0, 0, Bool(lastOp.op = "submit"))
  /\ pass' = [pass EXCEPT !.headers_ = <<>>]
  /\ UNCHANGED <<sub_passes_main_, draw_commands_buf_main_,
                 sorting_values_, sorted_, debug_build, aborted, idmapVars, otherVars>>

\* PassBase::submit on the root pass; the history tells whether the
\* operation before it was a submit as well.
Submit ==
  /\ ~aborted
  /\ executed' = submit(pass)
  /\ serialized' = <<>>
  /\ lastOp' = Op("submit", 0, 0, Bool(lastOp.op = "submit"))
  /\ UNCHANGED <<pass, sub_passes_main_, draw_commands_buf_main_,
                 sorting_values_, sorted_, debug_build, aborted, idmapVars, otherVars>>

\* PassBase::serialize on the root pass.
Serialize(line_prefix) ==
  /\ ~aborted
  /\ serialized' = serialize(pass, line_prefix)
  /\ executed' = <<>>
  /\ lastOp' = Op("serialize", 0, 0, line_prefix)
  /\ UNCHANGED <<pass, sub_passes_main_, draw_commands_buf_main_,
                 sorting_values_, sorted_, debug_build, aborted, idmapVars, otherVars>>

(* ---------------------------- PassSortable ---------------------------- *)
\* PassSortable::init
SortableInit ==
  /\ init
  /\ sorting_values_' = <<>>
  /\ sorted_' = FALSE

\* PassSortable::sub(name, sorting_value)
SortableSub(name, sorting_value) ==
  /\ SubOf(0, name, sorting_value, "sub_key")
  /\ sorting_values_' = Append(sorting_values_, sorting_value)
  /\ UNCHANGED sorted_

\* Every header index is a valid index of sorting_values_.
InBounds(headers) ==
  \A k \in 1..Len(headers) : headers[k].index < Len(sorting_values_)

\* The comparison of PassSortable::sort.
Less(a, b) ==
  LET a_val == sorting_values_[a.index + 1]
      b_val == sorting_values_[b.index + 1]
  IN a_val < b_val \/ (a_val = b_val /\ a.index < b.index)

\* An insertion that keeps one header per sorting value.
RECURSIVE Insert_unique(_, _)
Insert_unique(x, s) ==
  IF s = <<>> THEN <<x>>
  ELSE IF sorting_values_[x.index + 1] = sorting_values_[Head(s).index + 1]
    THEN s
  ELSE IF Less(x, Head(s)) THEN <<x>> \o s
  ELSE <<Head(s)>> \o Insert_unique(x, Tail(s))

\* std::sort under Less: insertion of x into the sorted sequence s.
RECURSIVE Insert(_, _)
Insert(x, s) ==
  IF s = <<>> THEN <<x>>
  ELSE IF Less(x, Head(s)) THEN <<x>> \o s
  ELSE <<Head(s)>> \o Insert(x, Tail(s))

RECURSIVE std_sort(_)
std_sort(headers) ==
  IF headers = <<>> THEN <<>>
  ELSE Insert(Head(headers), std_sort(Tail(headers)))

\* The orders a sort that reads outside sorting_values_ can leave behind.
Permutations_(headers) ==
  {s \in [1..Len(headers) -> {headers[k] : k \in 1..Len(headers)}] :
     \A k \in 1..Len(headers) : \E j \in 1..Len(headers) : s[j] = headers[k]}

\* A sort that does not look at sorted_.
sort_always ==
  IF Len(pass.headers_) >= 2 /\ ~InBounds(pass.headers_)
    THEN IF debug_build
           THEN /\ aborted' = TRUE
                /\ UNCHANGED <<pass, sorted_>>
           ELSE /\ \E s \in Permutations_(pass.headers_) :
                      pass' = [pass EXCEPT !.headers_ = s]
                /\ sorted_' = TRUE
                /\ UNCHANGED aborted
    ELSE /\ pass' = [pass EXCEPT !.headers_ = std_sort(@)]
         /\ sorted_' = TRUE
         /\ UNCHANGED aborted

\* PassSortable::sort, as a step from the current state. With fewer than
\* two headers std::sort compares nothing. A comparison that indexes
\* sorting_values_ out of range fails Vector's BLI_assert in a debug build
\* and reads past the array otherwise.
sort ==
  IF sorted_
    THEN UNCHANGED <<pass, sorted_, aborted>>
    ELSE IF Len(pass.headers_) >= 2 /\ ~InBounds(pass.headers_)
      THEN IF debug_build
             THEN /\ aborted' = TRUE
                  /\ UNCHANGED <<pass, sorted_>>
             ELSE /\ \E s \in Permutations_(pass.headers_) :
                        pass' = [pass EXCEPT !.headers_ = s]
                  /\ sorted_' = TRUE
                  /\ UNCHANGED aborted
      ELSE /\ pass' = [pass EXCEPT !.headers_ = std_sort(@)]
           /\ sorted_' = TRUE
           /\ UNCHANGED aborted

\* PassSortable::sort called on its own (by the manager).
Sort ==
  /\ ~aborted
  /\ sort
  /\ lastOp' = Op("sort", 0, Bool(sorted_), 0)
  /\ NoOutput
  /\ UNCHANGED <<sub_passes_main_, draw_commands_buf_main_, sorting_values_,
                 debug_build, idmapVars, otherVars>>

\* PassSortable::serialize
SortableSerialize ==
  /\ ~aborted
  /\ sort
  /\ serialized' = IF aborted' THEN <<>> ELSE serialize(pass', 0)
  /\ executed' = <<>>
  /\ lastOp' = Op("serialize", 0, Bool(sorted_), 0)
  /\ UNCHANGED <<sub_passes_main_, draw_commands_buf_main_, sorting_values_,
                 debug_build, idmapVars, otherVars>>

\* Submission of a PassSortable: sort(), then PassBase::submit.
SortableSubmit ==
  /\ ~aborted
  /\ sort
  /\ executed' = IF aborted' THEN <<>> ELSE submit(pass')
  /\ serialized' = <<>>
  /\ lastOp' = Op("submit", 0, Bool(sorted_), 0)
  /\ UNCHANGED <<sub_passes_main_, draw_commands_buf_main_, sorting_values_,
                 debug_build, idmapVars, otherVars>>

(* ------------------------- two Pass objects --------------------------- *)
\* Pass(name): the object holds its own sub_passes_main_ and
\* draw_commands_buf_main_ and hands references to them to its PassBase.
OtherPass(name) ==
  [pass |-> PassBase(name, NullShader, <<>>, NoKey),
   sub_passes_main_ |-> <<>>,
   draw_commands_buf_main_ |-> 0]

\* SubPassVector: the number of elements in the blocks given.
size(blocks) ==
  IF blocks = <<>> THEN 0
  ELSE (Len(blocks) - 1) * block_size + Len(Last(blocks).items)

OtherHandles == 0..size(other.sub_passes_main_)

OtherPassAt(h) ==
  IF h = 0 THEN other.pass ELSE At(other.sub_passes_main_, h - 1)

RECURSIVE OtherSumLen(_)
OtherSumLen(h) ==
  IF h > size(other.sub_passes_main_) THEN 0
  ELSE Len(OtherPassAt(h).headers_) + OtherSumLen(h + 1)

\* Headers recorded in the second tree since its last init().
OtherTotalHeaders == Len(other.pass.headers_) + OtherSumLen(1)

\* No submit of the root pass is under way. alone is history: the device
\* calls the submit makes when nothing else runs; interleaved is history:
\* the second tree was recorded into since the submit began.
NotSubmitting == [active |-> FALSE, alone |-> <<>>, interleaved |-> FALSE]

\* History: a call on the second tree while the submit is under way.
Interleave == [submitting EXCEPT !.interleaved = @ \/ submitting.active]

\* Pass::init on the second object.
OtherInit ==
  /\ ~aborted
  /\ other' = [pass |-> [other.pass EXCEPT !.headers_ = <<>>,
                                          !.commands_ = <<>>],
               sub_passes_main_ |-> <<>>,
               draw_commands_buf_main_ |-> 0]
  /\ submitting' = Interleave
  /\ lastOp' = Op("other_init", 0, 0, 0)
  /\ UNCHANGED <<passVars, idmapVars>>

\* A sub that appends to the container of the first object, as if the
\* container were shared by every Pass.
OtherSub_shared(h, name) ==
  LET P == OtherPassAt(h)
      child == PassBase(name, P.shader_, NextPos(P), NoKey)
      appended == append_and_get_index(sub_passes_main_, child)
      P2 == [P EXCEPT !.headers_ = Append(@, Header("SubPass",
                                                       appended.index))]
  IN /\ ~aborted
     /\ h \in OtherHandles
     /\ OtherTotalHeaders < MaxOther
     /\ SubPassCount < MaxSubPasses
     /\ sub_passes_main_' = appended.blocks
     /\ other' = IF h = 0
                   THEN [other EXCEPT !.pass = P2]
                   ELSE [other EXCEPT !.sub_passes_main_ = SetAt(@, h - 1, P2)]
     /\ submitting' = Interleave
     /\ lastOp' = Op("other_sub", 0, 0, 0)
     /\ UNCHANGED <<pass, draw_commands_buf_main_, sorting_values_, sorted_,
                    executed, serialized, debug_build, aborted, idmapVars>>

\* PassBase::sub on a pass of the second tree: sub_passes_ is the container
\* of the second object.
OtherSub(h, name) ==
  LET P == OtherPassAt(h)
      child == PassBase(name, P.shader_, NextPos(P), NoKey)
      appended == append_and_get_index(other.sub_passes_main_, child)
      P2 == [P EXCEPT !.headers_ = Append(@, Header("SubPass",
                                                       appended.index))]
  IN /\ ~aborted
     /\ h \in OtherHandles
     /\ OtherTotalHeaders < MaxOther
     /\ other' = IF h = 0
                   THEN [other EXCEPT !.pass = P2,
                                      !.sub_passes_main_ = appended.blocks]
                   ELSE [other EXCEPT !.sub_passes_main_ =
                                         SetAt(appended.blocks, h - 1, P2)]
     /\ submitting' = Interleave
     /\ lastOp' = Op("other_sub", 0, 0, 0)
     /\ UNCHANGED <<passVars, idmapVars>>

\* PassBase::shader_set on a pass of the second tree.
OtherShaderSet(h, shader) ==
  LET P == OtherPassAt(h)
      cmd == [shader |-> shader, pos |-> NextPos(P),
              seq |-> OtherTotalHeaders + 1]
      P2 == [create_command(P, "ShaderBind", cmd) EXCEPT !.shader_ = shader]
  IN /\ ~aborted
     /\ h \in OtherHandles
     /\ OtherTotalHeaders < MaxOther
     /\ other' = IF h = 0
                   THEN [other EXCEPT !.pass = P2]
                   ELSE [other EXCEPT !.sub_passes_main_ = SetAt(@, h - 1, P2)]
     /\ submitting' = Interleave
     /\ lastOp' = Op("other_shader_set", 0, 0, 0)
     /\ UNCHANGED <<passVars, idmapVars>>

\* PassBase::submit on the root pass enters its loop over headers_.
SubmitBegin ==
  /\ ~aborted
  /\ ~submitting.active
  /\ NoOutput
  /\ submitting' = [active |-> TRUE, alone |-> submit(pass),
                    interleaved |-> FALSE]
  /\ lastOp' = Op("submit_begin", 0, 0, 0)
  /\ UNCHANGED <<pass, sub_passes_main_, draw_commands_buf_main_,
                 sorting_values_, sorted_, debug_build, aborted, idmapVars,
                 other>>

\* One turn of the loops of PassBase::submit: the next command is read from
\* the tree as it is now and executed.
SubmitStep ==
  LET n == Len(executed)
  IN /\ submitting.active
     /\ n < Len(submit(pass))
     /\ executed' = Append(executed, submit(pass)[n + 1])
     /\ lastOp' = Op("submit_step", 0, n + 1, 0)
     /\ UNCHANGED <<pass, sub_passes_main_, draw_commands_buf_main_,
                    sorting_values_, sorted_, serialized, debug_build,
                    aborted, idmapVars, otherVars>>

\* The loops of PassBase::submit find no further header and return.
SubmitEnd ==
  /\ submitting.active
  /\ Len(executed) >= Len(submit(pass))
  /\ submitting' = NotSubmitting
  /\ lastOp' = Op("submit_end", 0, Len(executed), 0)
  /\ UNCHANGED <<passVars, idmapVars, other>>

(* ------------------------------ BMIdMap ------------------------------- *)
\* Free-list length above which free_idx_map is kept.
FREELIST_HASHMAP_THRESHOLD_HIGH == 1
NoIdxMap == <<>>

map_size == Len(map)

\* BM_idmap_get_id
BM_idmap_get_id(elem) == elem_id[elem]

\* Growth of the dense array so that it holds an entry for id.
idmap_grow_map(m, id) ==
  IF id >= Len(m) THEN m \o [k \in 1..(id + 1 - Len(m)) |-> NullElem] ELSE m

RemoveAt(s, k) == SubSeq(s, 1, k - 1) \o SubSeq(s, k + 1, Len(s))

RemoveId(s, id) == SelectSeq(s, LAMBDA x : x # id)

\* free_idx_map: id -> position in the free-list, kept for a long free-list.
FreeIdxMapOf(fl) ==
  IF Len(fl) > FREELIST_HASHMAP_THRESHOLD_HIGH
    THEN [id \in {fl[k] : k \in 1..Len(fl)} |->
            (CHOOSE k \in 1..Len(fl) : fl[k] = id) - 1]
    ELSE NoIdxMap

\* map[id] refers to an element (read before the operation).
Mapped(id) == id >= 0 /\ id < map_size /\ map[id + 1] # NullElem

\* The owning mesh creates an element; its id attribute is BM_ID_NONE.
CreateElem(a) ==
  /\ a \notin live
  /\ live' = live \cup {a}
  /\ elem_id' = [elem_id EXCEPT ![a] = BM_ID_NONE]
  /\ lastOp' = Op("create", a, 0, 0)
  /\ lookup_result' = NullElem
  /\ UNCHANGED <<map, maxid, freelist, free_idx_map, registered, passVars, otherVars>>

\* The owning mesh frees an element that is not in the map.
KillElem(a) ==
  /\ a \in live
  /\ a \notin registered
  /\ live' = live \ {a}
  /\ elem_id' = [elem_id EXCEPT ![a] = BM_ID_NONE]
  /\ lastOp' = Op("kill", a, 0, 0)
  /\ lookup_result' = NullElem
  /\ UNCHANGED <<map, maxid, freelist, free_idx_map, registered, passVars, otherVars>>

\* The binding of elem to id shared by alloc and assign.
Bind(elem, id) ==
  /\ map' = [idmap_grow_map(map, id) EXCEPT ![id + 1] = elem]
  /\ elem_id' = [elem_id EXCEPT ![elem] = id]
  /\ registered' = registered \cup {elem}

\* History of an alloc: the id returned, whether map[id] referred to an
\* element and whether the free-list held an id when it was called.
AllocOp(elem, id) ==
  [op |-> "alloc", p |-> elem, a |-> id, b |-> Bool(Mapped(id)),
   reused |-> freelist # <<>>]

\* An alloc that always issues a new maximum id.
BM_idmap_alloc_grows(elem) ==
  /\ elem \in live
  /\ elem \notin registered
  /\ maxid <= MaxId
  /\ maxid' = maxid + 1
  /\ UNCHANGED freelist
  /\ Bind(elem, maxid)
  /\ lastOp' = AllocOp(elem, maxid)
  /\ free_idx_map' = FreeIdxMapOf(freelist')
  /\ lookup_result' = NullElem
  /\ UNCHANGED <<live, passVars, otherVars>>

\* BM_idmap_alloc: an id of the free-list if there is one, else maxid++.
BM_idmap_alloc(elem) ==
  /\ elem \in live
  /\ elem \notin registered
  /\ IF freelist # <<>>
       THEN \E k \in 1..Len(freelist) :
              /\ freelist' = RemoveAt(freelist, k)
              /\ UNCHANGED maxid
              /\ Bind(elem, freelist[k])
              /\ lastOp' = AllocOp(elem, freelist[k])
       ELSE /\ maxid <= MaxId
            /\ maxid' = maxid + 1
            /\ UNCHANGED freelist
            /\ Bind(elem, maxid)
            /\ lastOp' = AllocOp(elem, maxid)
  /\ free_idx_map' = FreeIdxMapOf(freelist')
  /\ lookup_result' = NullElem
  /\ UNCHANGED <<live, passVars, otherVars>>

\* id is on the free-list fl.
OnFreeList(fl, id) == \E k \in 1..Len(fl) : fl[k] = id

\* BM_idmap_assign: bind elem to an id chosen by the caller, which no
\* element holds at the time; the history tells whether the id was on the
\* free-list.
BM_idmap_assign(elem, id) ==
  /\ elem \in live
  /\ elem \notin registered
  /\ id # BM_ID_NONE
  /\ ~Mapped(id)
  /\ freelist' = RemoveId(freelist, id)
  /\ free_idx_map' = FreeIdxMapOf(freelist')
  /\ Bind(elem, id)
  /\ lastOp' = Op("assign", elem, id, Bool(OnFreeList(freelist, id)))
  /\ lookup_result' = NullElem
  /\ UNCHANGED <<maxid, live, passVars, otherVars>>

\* BM_idmap_release
BM_idmap_release(elem, clear_id) ==
  LET id == BM_idmap_get_id(elem)
  IN /\ elem \in registered
     /\ map' = [map EXCEPT ![id + 1] = NullElem]
     /\ freelist' = Append(freelist, id)
     /\ free_idx_map' = FreeIdxMapOf(freelist')
     /\ elem_id' = IF clear_id THEN [elem_id EXCEPT ![elem] = BM_ID_NONE]
                               ELSE elem_id
     /\ registered' = registered \ {elem}
     /\ lastOp' = Op("release", elem, id, Bool(clear_id))
     /\ lookup_result' = NullElem
  /\ UNCHANGED <<maxid, live, passVars, otherVars>>

\* The values a read past the end of the dense array can yield.
Garbage == {NullElem} \cup Addrs

\* BM_idmap_lookup: the values the call can return.
BM_idmap_lookup(elem) ==
  IF elem >= 0
    THEN IF elem < map_size THEN {map[elem + 1]} ELSE Garbage
    ELSE {NullElem}

\* The read of BM_idmap_lookup is outside the dense array.
ReadsOutside(elem) == elem >= 0 /\ ~(elem < map_size)

Lookup(id) ==
  /\ lookup_result' \in BM_idmap_lookup(id)
  /\ lastOp' = Op("lookup", 0, id, Bool(ReadsOutside(id)))
  /\ UNCHANGED <<map, maxid, freelist, free_idx_map, live, elem_id,
                 registered, passVars, otherVars>>

\* The test of BM_idmap_on_elem_moved for a possible corruption of the map:
\* the id is out of range or its entry is not the element that moves.
PossibleCorruption(m, id, old_elem) ==
  id < 0 \/ id >= Len(m) \/ m[id + 1] # old_elem

\* History of a move: the new address, the id read, the old address and the
\* outcome of the corruption test.
MovedOp(new_elem, id, old_elem) ==
  [op |-> "moved", p |-> new_elem, a |-> id, b |-> old_elem,
   mismatch |-> PossibleCorruption(map, id, old_elem)]

\* An on_elem_moved that leaves an entry of another element alone.
BM_idmap_on_elem_moved_checked(m, id, old_elem, new_elem) ==
  IF id >= 0 /\ id < Len(m) /\ m[id + 1] = old_elem
    THEN [m EXCEPT ![id + 1] = new_elem] ELSE m

\* An on_elem_moved whose range test leaves out the last entry.
BM_idmap_on_elem_moved_short(m, id, old_elem, new_elem) ==
  IF id >= 0 /\ id < Len(m) - 1 THEN [m EXCEPT ![id + 1] = new_elem] ELSE m

\* BM_idmap_on_elem_moved: the dense array after the call; id is the id
\* attribute read from new_elem.
BM_idmap_on_elem_moved(m, id, old_elem, new_elem) ==
  IF id >= 0 /\ id < Len(m) THEN [m EXCEPT ![id + 1] = new_elem] ELSE m

\* The owning mesh moves an element to a free address, id attribute
\* included, and notifies the map.
ElemMoved(old_elem, new_elem) ==
  LET id == BM_idmap_get_id(old_elem)
  IN /\ old_elem \in live
     /\ new_elem \notin live
     /\ live' = (live \ {old_elem}) \cup {new_elem}
     /\ elem_id' = [elem_id EXCEPT ![new_elem] = id, ![old_elem] = BM_ID_NONE]
     /\ registered' = IF old_elem \in registered
                        THEN (registered \ {old_elem}) \cup {new_elem}
                        ELSE registered
     /\ map' = BM_idmap_on_elem_moved(map, id, old_elem, new_elem)
     /\ lastOp' = MovedOp(new_elem, id, old_elem)
     /\ lookup_result' = NullElem
     /\ UNCHANGED <<maxid, freelist, free_idx_map, passVars, otherVars>>

(* --------------------------- specifications --------------------------- *)
Counts == 0..MaxCount
Keys == 0..MaxKey

Init ==
  /\ pass = PassBase("root", NullShader, <<>>, NoKey)
  /\ sub_passes_main_ = <<>>
  /\ draw_commands_buf_main_ = 0
  /\ sorting_values_ = <<>>
  /\ sorted_ = FALSE
  /\ executed = <<>>
  /\ serialized = <<>>
  /\ debug_build \in BOOLEAN
  /\ aborted = FALSE
  /\ map = <<>>
  /\ maxid = BM_ID_NONE + 1
  /\ freelist = <<>>
  /\ free_idx_map = NoIdxMap
  /\ live = {}
  /\ elem_id = [a \in Addrs |-> BM_ID_NONE]
  /\ registered = {}
  /\ lookup_result = NullElem
  /\ other = OtherPass("other")
  /\ submitting = NotSubmitting
  /\ lastOp = Op("new", 0, 0, 0)

\* A PassSimple / PassMain tree.
NextPass ==
  \/ PassInit
  \/ \E h \in Handles, name \in Names : Sub(h, name)
  \/ \E h \in Handles, shader \in Shaders : ShaderSet(h, shader)
  \/ \E h \in Handles, il \in Counts, vl \in Counts : Draw(h, il, vl)
  \/ \E h \in Handles, group_len \in Counts : Dispatch(h, group_len)
  \/ Submit

SpecPass == Init /\ [][NextPass]_vars

\* A tree recorded with name-based binds and matrix constants, and read.
NextBind ==
  \/ PassInit
  \/ \E h \in Handles, name \in Names : Sub(h, name)
  \/ \E h \in Handles, shader \in AllShaders : ShaderSet(h, shader)
  \/ \E h \in Handles, name \in UniformNames : BindName(h, name)
  \/ \E h \in Handles, name \in UniformNames : PushConstant(h, name)
  \/ Submit
  \/ \E line_prefix \in Prefixes : Serialize(line_prefix)

SpecBind == Init /\ [][NextBind]_vars

\* A PassSortable tree: the root holds keyed sub-passes only.
NextSortable ==
  \/ SortableInit
  \/ \E name \in Names, key \in Keys : SortableSub(name, key)
  \/ \E h \in SubHandles, name \in Names : Sub(h, name)
  \/ \E h \in SubHandles, shader \in Shaders : ShaderSet(h, shader)
  \/ \E h \in SubHandles, il \in Counts, vl \in Counts : Draw(h, il, vl)
  \/ \E h \in SubHandles, name \in UniformNames : PushConstant(h, name)
  \/ Sort
  \/ SortableSerialize
  \/ SortableSubmit

SpecSortable == Init /\ [][NextSortable]_vars

\* The identifier map and the elements of its mesh.
NextIdMap ==
  \/ \E a \in Addrs : CreateElem(a)
  \/ \E a \in Addrs : KillElem(a)
  \/ \E a \in Addrs : BM_idmap_alloc(a)
  \/ \E a \in Addrs, id \in 1..MaxId : BM_idmap_assign(a, id)
  \/ \E a \in Addrs, clear_id \in BOOLEAN : BM_idmap_release(a, clear_id)
  \/ \E a \in Addrs, b \in Addrs : ElemMoved(a, b)

\* bmesh_idmap.h has no assertion: one build is enough.
InitIdMap == Init /\ ~debug_build

SpecIdMap == InitIdMap /\ [][NextIdMap]_vars

\* The identifier map and its readers.
NextLookup ==
  \/ NextIdMap
  \/ \E id \in -1..(MaxId + 1) : Lookup(id)

SpecLookup == InitIdMap /\ [][NextLookup]_vars

\* A PassSortable tree that is recorded, sorted and submitted step by step,
\* and a second tree that is recorded at any time. The first tree is not
\* touched by its owner while its submit is under way.
NextTwoTrees ==
  \/ ~submitting.active /\ SortableInit
  \/ ~submitting.active /\ \E name \in Names, key \in Keys : SortableSub(name, key)
  \/ ~submitting.active /\ \E h \in SubHandles, shader \in Shaders : ShaderSet(h, shader)
  \/ ~submitting.active /\ Sort
  \/ ~submitting.active /\ SortableSerialize
  \/ SubmitBegin
  \/ SubmitStep
  \/ SubmitEnd
  \/ OtherInit
  \/ \E h \in OtherHandles, name \in Names : OtherSub(h, name)
  \/ \E h \in OtherHandles, shader \in Shaders : OtherShaderSet(h, shader)

\* A failed BLI_assert ends the process and with it every tree: the build
\* in which both trees go on is the one without assertions.
InitTwoTrees == Init /\ ~debug_build

SpecTwoTrees == InitTwoTrees /\ [][NextTwoTrees]_vars

Next == NextPass \/ NextBind \/ NextSortable \/ NextLookup \/ NextTwoTrees

Spec == Init /\ [][Next]_vars

(* ------------------------------ claims -------------------------------- *)
\* s comes before t in the order of the recording: at the first place
\* where the two paths differ s has the smaller ordinal.
Before(s, t) ==
  \E k \in 1..Len(s) :
    /\ k <= Len(t)
    /\ s[k] < t[k]
    /\ \A j \in 1..(k - 1) : s[j] = t[j]

AllPasses == {PassAt(h) : h \in Handles}

\* The payloads recorded with a type that submit executes.
Recorded ==
  UNION {{P.commands_[P.headers_[k].index + 1] :
            k \in {j \in 1..Len(P.headers_) :
                     P.headers_[j].type \notin {"SubPass", "None"}}} :
         P \in AllPasses}

\* C1: submit of the root executes every recorded command exactly once, the
\* commands of a pass in the order of its headers and the commands of a
\* sub-pass at the place of the header sub() appended to its parent, that
\* is in the order of the positions the recording calls had in the tree,
\* whenever they were recorded.
C1_SubmitInRecordedOrder ==
  lastOp.op = "submit" =>
    /\ \A i \in 1..Len(executed) : \A j \in (i + 1)..Len(executed) :
         Before(executed[i].cmd.pos, executed[j].cmd.pos)
    /\ {executed[i].cmd : i \in 1..Len(executed)} = Recorded

\* A submit that ran a command of a sub-pass before a command of the root
\* which was recorded earlier than it.
C1_Witness ==
  /\ lastOp.op = "submit"
  /\ \E i \in 1..Len(executed) : \E j \in (i + 1)..Len(executed) :
       /\ Len(executed[i].cmd.pos) >= 2
       /\ Len(executed[j].cmd.pos) = 1
       /\ executed[i].cmd.seq > executed[j].cmd.seq

\* C2: a draw with instance_len = 0 or vertex_len = 0 leaves the headers,
\* the commands and the draw-command buffer of the whole tree unchanged, and
\* no submit ever executes a draw with a zero count.
C2_ZeroDrawRecordsNothing ==
  /\ [][(lastOp'.op = "draw" /\ (lastOp'.a = 0 \/ lastOp'.b = 0))
          => UNCHANGED <<pass, sub_passes_main_, draw_commands_buf_main_>>]_vars
  /\ [](\A i \in 1..Len(executed) :
          executed[i].type = "Draw" =>
            executed[i].cmd.instance_len # 0 /\ executed[i].cmd.vertex_len # 0)

\* A zero-count draw was called on a sub-pass that holds nothing, inside a
\* root that holds commands.
C2_Witness ==
  /\ lastOp.op = "draw"
  /\ lastOp.a = 0 \/ lastOp.b = 0
  /\ lastOp.p >= 1
  /\ PassAt(lastOp.p).headers_ = <<>>
  /\ Len(pass.headers_) >= 2

KeyOf(header) == SubPassAt(header.index).key

\* The root headers are in ascending order of key, and of sub-pass index
\* among equal keys.
SortedByKey ==
  \A i \in 1..Len(pass.headers_) : \A j \in (i + 1)..Len(pass.headers_) :
    LET a == pass.headers_[i]
        b == pass.headers_[j]
    IN KeyOf(a) < KeyOf(b) \/ (KeyOf(a) = KeyOf(b) /\ a.index < b.index)

\* C4: after sort() the direct sub-pass headers of a sortable pass are in
\* non-decreasing order of sort key, equal keys in ascending order of
\* sub-pass index (stated for the sort() calls that find sorted_ unset and
\* return).
C4_SortOrdersByKey ==
  (lastOp.op = "sort" /\ lastOp.a = 0 /\ ~aborted) => SortedByKey

\* C5: a serialize or submit of a sortable pass observes the direct sub-pass
\* headers sorted by ascending key, sub-passes added after an earlier read
\* included (stated for the recordings in which every header index is a
\* valid index of the sorting values).
C5_ReadObservesSorted ==
  (lastOp.op \in {"serialize", "submit"} /\ ~aborted /\ InBounds(pass.headers_))
    => SortedByKey

\* C6: alloc never returns id 0 nor an id whose map entry referred to an
\* element when it was called.
C6_AllocReturnsFreshId ==
  lastOp.op = "alloc" => (lastOp.a # BM_ID_NONE /\ lastOp.b = 0)

\* Occurrences of id in the free-list fl.
Count(fl, id) == Cardinality({k \in 1..Len(fl) : fl[k] = id})

\* C7: with a non-empty free-list alloc returns one of its ids, removes one
\* occurrence of it and leaves maxid alone; with an empty free-list it
\* returns maxid and advances it.
C7_ReuseBeforeGrowth ==
  [][lastOp'.op = "alloc" =>
       IF freelist # <<>>
         THEN /\ Count(freelist, lastOp'.a) >= 1
              /\ Count(freelist', lastOp'.a) = Count(freelist, lastOp'.a) - 1
              /\ Len(freelist') = Len(freelist) - 1
              /\ maxid' = maxid
         ELSE /\ lastOp'.a = maxid
              /\ maxid' = maxid + 1
              /\ freelist' = <<>>]_vars

\* An alloc returned a released id: the free-list held it and maxid, already
\* past it, stayed.
C7_Witness ==
  /\ lastOp.op = "alloc"
  /\ lastOp.reused
  /\ lastOp.a < maxid
  /\ map[lastOp.a + 1] = lastOp.p

\* C8: a lookup of a negative id or of an id >= map_size returns NULL and
\* reads nothing outside the dense array.
C8_LookupOutOfRangeIsNull ==
  (lastOp.op = "lookup" /\ (lastOp.a < 0 \/ lastOp.a >= map_size))
    => (lookup_result = NullElem /\ lastOp.b = 0)

\* C9: after the move of an element of the map with id i, lookup(i) returns
\* the new address and the id stored in the element is still i.
C9_MovedElemFound ==
  (lastOp.op = "moved" /\ lastOp.p \in registered)
    => /\ BM_idmap_lookup(lastOp.a) = {lastOp.p}
       /\ BM_idmap_get_id(lastOp.p) = lastOp.a

\* An element of the map was moved to another address and the entry of its
\* id refers to that address.
C9_Witness ==
  /\ lastOp.op = "moved"
  /\ lastOp.p \in registered
  /\ lastOp.a >= 1
  /\ lastOp.b # lastOp.p
  /\ map[lastOp.a + 1] = lastOp.p

\* C10: no two elements of the map hold the same id, and map[i] = o for
\* every element o of the map with stored id i.
C10_IdsUniqueAndMapped ==
  /\ \A o1 \in registered : \A o2 \in registered \ {o1} :
       elem_id[o1] # elem_id[o2]
  /\ \A o \in registered :
       /\ elem_id[o] < map_size
       /\ map[elem_id[o] + 1] = o

\* Where operator[] finds the element of an index: its block, its offset in
\* the block and the buffer of the block the items are in.
Location(blocks, index) ==
  <<index \div block_size, index % block_size,
    blocks[(index \div block_size) + 1].gen>>

\* C11: the k-th sub() since the last init() gets index k-1; every sub-pass
\* appended before keeps its block, its offset and its place in memory
\* through every later operation that is not an init(), appends that open a
\* new block and appends made by sub() on a sub-pass included; operator[] at
\* an index returns the sub-pass appended under that index.
C11_SubPassesStayInPlace ==
  [][lastOp'.op # "init" =>
       /\ \A i \in 0..(SubPassCount - 1) :
            /\ Location(sub_passes_main_', i) = Location(sub_passes_main_, i)
            /\ At(sub_passes_main_', i).path = SubPassAt(i).path
            /\ At(sub_passes_main_', i).debug_name = SubPassAt(i).debug_name
       /\ lastOp'.op \in {"sub", "sub_key"} =>
            /\ lastOp'.a = SubPassCount
            /\ At(sub_passes_main_', lastOp'.a).path
                 = NextPos(PassAt(lastOp'.p))]_vars

\* A sub() called on a sub-pass opened a second block.
C11_Witness ==
  /\ lastOp.op = "sub"
  /\ lastOp.p >= 1
  /\ Len(sub_passes_main_) >= 2
  /\ Len(Last(sub_passes_main_).items) = 1
  /\ lastOp.a = SubPassCount - 1

\* C12: init() leaves the headers and the commands of the root, the sub-pass
\* container (and with it every sub-pass), the draw-command buffer, the
\* sorting values and the sorted flag empty, and a submit that follows it
\* at once executes nothing.
C12_InitEmptiesTree ==
  /\ [][lastOp'.op = "init" =>
          /\ pass'.headers_ = <<>>
          /\ pass'.commands_ = <<>>
          /\ sub_passes_main_' = <<>>
          /\ draw_commands_buf_main_' = 0
          /\ sorting_values_' = <<>>
          /\ ~sorted_']_vars
  /\ [][(lastOp.op = "init" /\ lastOp'.op = "submit" /\ ~aborted')
          => executed' = <<>>]_vars

\* An init() found a sorted tree of two sub-passes or more, one of them
\* holding a draw.
C12_Witness ==
  /\ lastOp.op = "init"
  /\ lastOp.a >= 3
  /\ lastOp.b = 1
  /\ pass.headers_ = <<>>
  /\ sorting_values_ = <<>>

\* The pass a command was recorded in, as the path of that pass.
PassOf(cmd) == SubSeq(cmd.pos, 1, Len(cmd.pos) - 1)

\* The slot a bind or a constant was recorded with.
SlotOf(type, cmd) == IF type = "ResourceBind" THEN cmd.slot ELSE cmd.location

\* C13: a name-based bind or push constant recorded with a shader bound is
\* executed by submit with the slot that name had in the shader the pass
\* had when it was recorded, whatever shader_set was called afterwards, and
\* shader_set changes no command recorded before it.
C13_SlotResolvedAtRecordTime ==
  /\ [](lastOp.op = "submit" =>
          \A i \in 1..Len(executed) :
            (/\ executed[i].type \in {"ResourceBind", "PushConstant"}
             /\ executed[i].cmd.shader_at # NullShader)
              => SlotOf(executed[i].type, executed[i].cmd)
                   = GPU_shader_get_binding(executed[i].cmd.shader_at,
                                            executed[i].cmd.name))
  /\ [][lastOp'.op = "shader_set" =>
          LET h == lastOp'.p
              P == PassAt(h)
              Q == IF h = 0 THEN pass' ELSE At(sub_passes_main_', h - 1)
          IN SubSeq(Q.commands_, 1, Len(P.commands_)) = P.commands_]_vars

\* A submit ran a bind recorded under one shader of the root and, after it,
\* the shader_set that gave the root another shader, in which the name has
\* another slot.
C13_Witness ==
  /\ lastOp.op = "submit"
  /\ \E i \in 1..Len(executed) : \E j \in (i + 1)..Len(executed) :
       /\ executed[i].type = "ResourceBind"
       /\ executed[j].type = "ShaderBind"
       /\ PassOf(executed[i].cmd) = <<>>
       /\ PassOf(executed[j].cmd) = <<>>
       /\ executed[j].cmd.shader = pass.shader_
       /\ executed[i].cmd.slot
            # GPU_shader_get_binding(pass.shader_, executed[i].cmd.name)

\* The pass behind handle h after the step.
PassAtNext(h) == IF h = 0 THEN pass' ELSE At(sub_passes_main_', h - 1)

\* C14: sub() gives the new sub-pass the shader its parent has at that
\* moment; shader_set gives the pass it is called on the shader it records
\* and no operation but init() changes the shader of any other pass of the
\* tree, parent or sub-pass.
C14_ShaderInheritedThenIndependent ==
  [][lastOp'.op # "init" =>
       /\ \A g \in Handles :
            (lastOp'.op = "shader_set" /\ lastOp'.p = g)
              \/ PassAtNext(g).shader_ = PassAt(g).shader_
       /\ lastOp'.op = "sub" =>
            PassAtNext(lastOp'.a + 1).shader_ = PassAt(lastOp'.p).shader_
       /\ lastOp'.op = "shader_set" =>
            PassAtNext(lastOp'.p).shader_
              = Last(PassAtNext(lastOp'.p).commands_).shader]_vars

\* Two sub-passes of the root: one made before the root got its shader and
\* still without one, one made after it and holding that shader without a
\* shader_set of its own.
C14_Witness ==
  /\ lastOp.op = "sub"
  /\ pass.shader_ # NullShader
  /\ \E g1 \in SubHandles, g2 \in SubHandles :
       /\ PassAt(g1).path = <<1>>
       /\ PassAt(g1).shader_ = NullShader
       /\ Len(PassAt(g2).path) = 1
       /\ PassAt(g2).shader_ = pass.shader_
       /\ PassAt(g2).headers_ = <<>>

\* C15: a 4x4-matrix constant recorded by value appends three headers
\* tagged PushConstant, None, None with the storage indices i, i+1, i+2 and
\* three storage slots, and leaves what was recorded before alone; submit
\* and serialize execute and print one entry for every recorded command
\* and none for a placeholder.
C15_MatrixTakesThreeSlots ==
  /\ [][(lastOp'.op = "push_constant" /\ ~aborted') =>
          LET P == PassAt(lastOp'.p)
              Q == PassAtNext(lastOp'.p)
              i == Len(P.commands_)
          IN /\ Q.headers_ = P.headers_ \o <<Header("PushConstant", i),
                                              Header("None", i + 1),
                                              Header("None", i + 2)>>
             /\ Len(Q.commands_) = i + 3
             /\ SubSeq(Q.commands_, 1, i) = P.commands_
             /\ Q.commands_[i + 1].comp_len = 16]_vars
  /\ [](lastOp.op = "submit" =>
          /\ \A i \in 1..Len(executed) : executed[i].type # "None"
          /\ Len(executed) = Cardinality(Recorded))
  /\ [](lastOp.op = "serialize" =>
          /\ \A i \in 1..Len(serialized) : serialized[i].text # "None"
          /\ Len(serialized) = 1 + SubPassCount + Cardinality(Recorded))

\* A submit executed the matrix constant of a pass that holds its two
\* placeholders and a command recorded before them.
C15_Witness ==
  /\ lastOp.op = "submit"
  /\ Len(executed) = 2
  /\ executed[2].type = "PushConstant"
  /\ \E h \in Handles :
       /\ Len(PassAt(h).headers_) = 4
       /\ PassAt(h).headers_[3].type = "None"
       /\ PassAt(h).headers_[4] = Header("None", 3)

\* C16: a name-based bind or a push_constant called on a pass whose shader
\* is null ends in a failed assertion and records nothing.
C16_NullShaderBindAsserts ==
  [][(/\ lastOp'.op \in {"bind", "push_constant"}
      /\ PassAt(lastOp'.p).shader_ = NullShader)
       => /\ aborted'
          /\ UNCHANGED <<pass, sub_passes_main_>>]_vars

\* The orders of the root headers PassSortable::sort can return with from
\* the current state (none when it aborts).
SortOutcomes ==
  IF sorted_ THEN {pass.headers_}
  ELSE IF Len(pass.headers_) >= 2 /\ ~InBounds(pass.headers_)
    THEN IF debug_build THEN {} ELSE Permutations_(pass.headers_)
    ELSE {std_sort(pass.headers_)}

\* The characters of a serialize() output: prefix and text of every line.
Text(lines) == [i \in 1..Len(lines) |-> <<lines[i].prefix, lines[i].text>>]

\* The outputs PassSortable::serialize can return from the current state.
SerializeOutcomes ==
  {Text(serialize([pass EXCEPT !.headers_ = hs], 0)) : hs \in SortOutcomes}

\* C17: serialize is deterministic: the recording made so far determines
\* the output (two trees recorded alike print alike), and a serialize that
\* follows a serialize at once returns the same output.
C17_SerializeDeterministic ==
  /\ [](~aborted => Cardinality(SerializeOutcomes) <= 1)
  /\ [][(lastOp.op = "serialize" /\ lastOp'.op = "serialize" /\ ~aborted')
          => serialized' = serialized]_vars

\* A line of serialize() that prints a command.
IsCommandLine(line) == line.text \notin ({pass.debug_name} \cup Names)

\* s is a proper prefix of t.
IsPrefix(s, t) == Len(s) < Len(t) /\ SubSeq(t, 1, Len(s)) = s

\* C18: in the output of serialize(prefix) the name line of a pass at depth
\* d has prefix + 2*d characters of indentation and a command line of that
\* pass prefix + 2*(d+1); the name line of a pass comes before its lines,
\* and the lines come in the order in which submit visits the headers.
C18_SerializeIndentsByDepth ==
  lastOp.op = "serialize" =>
    /\ \A i \in 1..Len(serialized) :
         LET line == serialized[i]
         IN IF IsCommandLine(line)
              THEN line.prefix = lastOp.b + 2 * ((Len(line.pos) - 1) + 1)
              ELSE line.prefix = lastOp.b + 2 * Len(line.pos)
    /\ \A i \in 1..Len(serialized) : \A j \in (i + 1)..Len(serialized) :
         \/ Before(serialized[i].pos, serialized[j].pos)
         \/ IsPrefix(serialized[i].pos, serialized[j].pos)
    /\ LET lines == SelectSeq(serialized, IsCommandLine)
           visited == submit(pass)
       IN /\ Len(lines) = Len(visited)
          /\ \A i \in 1..Len(lines) :
               /\ lines[i].pos = visited[i].cmd.pos
               /\ lines[i].text = visited[i].type

\* A serialize with a prefix printed a command of a sub-pass and, after it,
\* a command of the root.
C18_Witness ==
  /\ lastOp.op = "serialize"
  /\ lastOp.b = 1
  /\ \E i \in 1..Len(serialized) : \E j \in (i + 1)..Len(serialized) :
       /\ IsCommandLine(serialized[i])
       /\ serialized[i].prefix = 5
       /\ IsCommandLine(serialized[j])
       /\ serialized[j].prefix = 3

\* C19: submit changes no header, no command, no sub-pass (its shader
\* included) and nothing of the draw-command buffer, and a submit that
\* follows a submit executes the same sequence of commands.
C19_SubmitIsReadOnly ==
  [][lastOp'.op = "submit" =>
       /\ UNCHANGED <<pass, sub_passes_main_, draw_commands_buf_main_>>
       /\ lastOp.op = "submit" => executed' = executed]_vars

\* A tree with a sub-pass was submitted twice in a row and executed two
\* commands or more.
C19_Witness ==
  /\ lastOp.op = "submit"
  /\ lastOp.b = 1
  /\ SubPassCount >= 1
  /\ Len(executed) >= 2
  /\ executed = submit(pass)

\* C20: after assign(elem, id) with an id taken from the free-list the id
\* is on the free-list no more, nor in free_idx_map, map[id] is elem, and
\* an alloc that follows while elem is in the map does not return id.
C20_AssignTakesIdOffFreeList ==
  /\ []((lastOp.op = "assign" /\ lastOp.b = 1) =>
          /\ ~OnFreeList(freelist, lastOp.a)
          /\ lastOp.a \notin DOMAIN free_idx_map
          /\ map[lastOp.a + 1] = lastOp.p)
  /\ [][(/\ lastOp.op = "assign"
          /\ lastOp.b = 1
          /\ lastOp'.op = "alloc"
          /\ lastOp.p \in registered')
           => lastOp'.a # lastOp.a]_vars

\* C21: after release(elem, clear_id) of an element of the map with id i,
\* lookup(i) returns NULL, i is on the free-list exactly once, and the id
\* stored in the element is 0 when clear_id is set and still i when not.
C21_ReleaseFreesId ==
  lastOp.op = "release" =>
    /\ BM_idmap_lookup(lastOp.a) = {NullElem}
    /\ Count(freelist, lastOp.a) = 1
    /\ BM_idmap_get_id(lastOp.p)
         = (IF lastOp.b = 1 THEN BM_ID_NONE ELSE lastOp.a)

\* C23: in a sortable pass the index of every root header is a valid
\* position of sorting_values_, and the value sort reads there is the key
\* given to the sub(name, key) call that made the sub-pass of the header.
C23_SortReadsKeyOfSubPass ==
  \A k \in 1..Len(pass.headers_) :
    LET header == pass.headers_[k]
    IN /\ header.index < Len(sorting_values_)
       /\ sorting_values_[header.index + 1] = KeyOf(header)

\* s and t hold the same elements, each as many times.
SameBag(s, t) ==
  /\ Len(s) = Len(t)
  /\ \A k \in 1..Len(s) :
       Cardinality({j \in 1..Len(t) : t[j] = s[k]})
         = Cardinality({j \in 1..Len(s) : s[j] = s[k]})

\* C24: a sort, called on its own or by serialize or by the submission,
\* leaves the root with the same headers, each as many times as before,
\* changes no command of the root and changes nothing of any sub-pass:
\* its headers, their order and its commands stay, the three headers of a
\* matrix constant with them.
C24_SortPermutesRootHeadersOnly ==
  [][lastOp'.op \in {"sort", "serialize", "submit"} =>
       /\ SameBag(pass.headers_, pass'.headers_)
       /\ pass'.commands_ = pass.commands_
       /\ sub_passes_main_' = sub_passes_main_]_vars

\* A sort exchanged two sub-passes, one of them holding the three headers
\* of a matrix constant.
C24_Witness ==
  /\ lastOp.op = "sort"
  /\ lastOp.a = 0
  /\ Len(pass.headers_) = 2
  /\ pass.headers_[1].index > pass.headers_[2].index
  /\ \E h \in SubHandles :
       PassAt(h).headers_ = <<Header("PushConstant", 0), Header("None", 1),
                              Header("None", 2)>>

\* The operations that sort a sortable pass before they read it.
SortingReads == {"sort", "serialize", "submit"}

CommandHeaders(P) == SelectSeq(P.headers_, LAMBDA hd : hd.type # "SubPass")

\* Every header of every pass refers to what was recorded for it: the j-th
\* command header to slot j-1 of the commands of its pass, a SubPass header
\* to an element of the shared container.
HeadersIndexStorage ==
  \A P \in AllPasses :
    /\ Len(CommandHeaders(P)) = Len(P.commands_)
    /\ \A j \in 1..Len(CommandHeaders(P)) : CommandHeaders(P)[j].index = j - 1
    /\ \A k \in 1..Len(P.headers_) :
         P.headers_[k].type = "SubPass" => P.headers_[k].index < SubPassCount

\* The recording operations that go through create_command.
CreateCommandOps == {"shader_set", "bind", "push_constant", "dispatch"}

\* The headers and the slots the operation lastOp' names has appended to
\* its pass are n each.
AppendedBy(n) ==
  LET P == PassAt(lastOp'.p)
      Q == PassAtNext(lastOp'.p)
  IN /\ Len(Q.headers_) = Len(P.headers_) + n
     /\ Len(Q.commands_) = Len(P.commands_) + n

\* C26 as stated: every recording operation that goes through
\* create_command appends exactly one header and one storage slot, and in
\* every state every header indexes what was recorded for it.
C26_OneHeaderPerOperation ==
  /\ [][(lastOp'.op \in CreateCommandOps /\ ~aborted') => AppendedBy(1)]_vars
  /\ []HeadersIndexStorage

\* C26, amended: every call of create_command appends exactly one header
\* and one storage slot, so an operation appends one of each, and the
\* 4x4-matrix constant, which calls it three times, three of each; in every
\* state every header indexes what was recorded for it.
C26_OneHeaderPerCreateCommand ==
  /\ [][(lastOp'.op \in CreateCommandOps /\ ~aborted') =>
          AppendedBy(IF lastOp'.op = "push_constant" THEN 3 ELSE 1)]_vars
  /\ []HeadersIndexStorage

\* A pass holds a command, a sub-pass and a second command: its third
\* header has index 1.
C26_Witness ==
  \E h \in Handles :
    /\ Len(PassAt(h).headers_) = 3
    /\ PassAt(h).headers_[1].type # "SubPass"
    /\ PassAt(h).headers_[2].type = "SubPass"
    /\ PassAt(h).headers_[3].type # "SubPass"
    /\ PassAt(h).headers_[3].index = 1
    /\ Len(PassAt(h).commands_) = 2

\* C27: init() leaves the shader of the root as it is; a name-based bind
\* recorded on a pass with a shader, after an init() as well, gets the slot
\* of the name in that shader (the inheritance by sub() is C14).
C27_InitKeepsShader ==
  /\ [][lastOp'.op = "init" => pass'.shader_ = pass.shader_]_vars
  /\ [][(/\ lastOp'.op = "bind"
          /\ ~aborted'
          /\ PassAt(lastOp'.p).shader_ # NullShader) =>
          LET cmd == Last(PassAtNext(lastOp'.p).commands_)
          IN cmd.slot = GPU_shader_get_binding(PassAt(lastOp'.p).shader_,
                                               cmd.name)]_vars

\* After an init() the root, with no shader_set recorded in it, holds a bind
\* resolved in the shader set before the init() and a sub-pass that got
\* that shader.
C27_Witness ==
  /\ pass.shader_ # NullShader
  /\ Len(pass.headers_) = 2
  /\ pass.headers_[1].type = "ResourceBind"
  /\ pass.commands_[1].shader_at = pass.shader_
  /\ pass.commands_[1].slot
       = GPU_shader_get_binding(pass.shader_, pass.commands_[1].name)
  /\ pass.headers_[2].type = "SubPass"
  /\ SubPassAt(pass.headers_[2].index).shader_ = pass.shader_

\* C28: id 0 stays unassigned: map[0] is NULL and lookup(0) returns NULL
\* in every state in which the dense array has an entry for it.
C28_IdZeroStaysUnassigned ==
  map_size >= 1 =>
    /\ map[BM_ID_NONE + 1] = NullElem
    /\ BM_idmap_lookup(BM_ID_NONE) = {NullElem}

\* C29: BM_idmap_on_elem_moved changes no entry of the map but the one of
\* the id stored in the element, and neither the size of the map nor the
\* free-list, free_idx_map or maxid; the element keeps its id at its new
\* address and the other elements keep theirs; with an id out of range the
\* map stays as it is, and with an id in range the entry becomes the new
\* address, also when it did not hold the old one.
C29_MoveRepointsOneEntry ==
  [][lastOp'.op = "moved" =>
       LET id == lastOp'.a
           new_elem == lastOp'.p
           old_elem == lastOp'.b
       IN /\ Len(map') = Len(map)
          /\ \A k \in 1..Len(map) : k # id + 1 => map'[k] = map[k]
          /\ UNCHANGED <<freelist, free_idx_map, maxid>>
          /\ elem_id'[new_elem] = elem_id[old_elem]
          /\ \A a \in Addrs \ {old_elem, new_elem} : elem_id'[a] = elem_id[a]
          /\ IF id >= 0 /\ id < map_size
               THEN map'[id + 1] = new_elem
               ELSE map' = map]_vars

\* An element that is not in the map moved with a stale id in range; the
\* entry of that id, which did not hold its old address, holds the new one.
C29_Witness ==
  /\ lastOp.op = "moved"
  /\ lastOp.mismatch
  /\ lastOp.a >= 1
  /\ lastOp.a < map_size
  /\ map[lastOp.a + 1] = lastOp.p
  /\ freelist # <<>>

\* The calls made on the second tree.
OtherOps == {"other_init", "other_sub", "other_shader_set"}

\* The state of the tree of the root pass.
Tree == <<pass, sub_passes_main_, draw_commands_buf_main_, sorting_values_,
          sorted_>>

\* C22: a call on one tree changes nothing of the other tree: init, sub and
\* shader_set on the second tree leave the tree of the root pass, and the
\* commands its submit executes, as they were; init, recording, sort,
\* serialize and submit on the root pass leave the second tree as it was.
\* A submit of the root pass that runs step by step while the second tree is
\* recorded executes, to its end, the commands of the submit run alone.
C22_TreesAreIsolated ==
  /\ [](submitting.active =>
          /\ Len(executed) <= Len(submitting.alone)
          /\ executed = SubSeq(submitting.alone, 1, Len(executed)))
  /\ [][/\ lastOp'.op \in OtherOps =>
             /\ UNCHANGED Tree
             /\ UNCHANGED <<executed, serialized>>
             /\ submit(pass)' = submit(pass)
        /\ lastOp'.op \notin OtherOps => other' = other
        /\ lastOp'.op = "submit_end" => executed' = submitting.alone]_vars

\* A submit of the root pass has executed its last command, the second of
\* two or more, and sub-passes were recorded into the second tree while it
\* ran.
C22_Witness ==
  /\ submitting.active
  /\ submitting.interleaved
  /\ Len(executed) >= 2
  /\ Len(executed) = Len(submitting.alone)
  /\ size(other.sub_passes_main_) >= 1
  /\ OtherTotalHeaders >= 2

====
